---- MODULE Spec2Model ----
(***************************************************************************)
(* A model of dataclasses_json/api.py: the per-field / per-class           *)
(* configuration built by config(), the dataclass_json decorator and its   *)
(* _process_class step, DataClassJsonMixin.schema(), and the to_dict /     *)
(* from_dict pair.                                                         *)
(*                                                                         *)
(* Python strings are sequences of one-character strings, so that          *)
(* str.upper(), str.lower() and the stringcase transforms are computed,    *)
(* character by character, and not assumed.                                *)
(***************************************************************************)
EXTENDS Naturals, Sequences, FiniteSets, TLC

VARIABLES
    metadata,   \* the metadata mapping the caller composes config() calls over
    nextId,     \* identity of the next dict object a `{}` display allocates
    last,       \* arguments and outcome of the most recent config() call
    latest,     \* history: per option, the value most recently supplied for it
    classes,    \* the record types: their attributes, by class
    lastD,      \* arguments and outcome of the most recent decorator / schema call
    rt          \* the to_dict / from_dict conversion in progress

vars == <<metadata, nextId, last, latest, classes, lastD, rt>>

(***************************************************************************)
(* Bounds of the model.                                                    *)
(***************************************************************************)
MaxFresh == 1       \* how many fresh metadata dicts config(None, ...) may allocate

(***************************************************************************)
(* Characters and the str methods used by the code.                        *)
(***************************************************************************)
Lowers == <<"a","b","c","d","e","f","g","h","i","j","k","l","m",
            "n","o","p","q","r","s","t","u","v","w","x","y","z">>
Uppers == <<"A","B","C","D","E","F","G","H","I","J","K","L","M",
            "N","O","P","Q","R","S","T","U","V","W","X","Y","Z">>

IsLower(c) == \E i \in DOMAIN Lowers : Lowers[i] = c
IsUpper(c) == \E i \in DOMAIN Uppers : Uppers[i] = c

UpperChar(c) ==
    IF IsLower(c) THEN Uppers[CHOOSE i \in DOMAIN Lowers : Lowers[i] = c] ELSE c
LowerChar(c) ==
    IF IsUpper(c) THEN Lowers[CHOOSE i \in DOMAIN Uppers : Uppers[i] = c] ELSE c

\* str.upper() and str.lower()
upper(s) == [i \in 1..Len(s) |-> UpperChar(s[i])]
lower(s) == [i \in 1..Len(s) |-> LowerChar(s[i])]

(***************************************************************************)
(* The stringcase transforms behind the LetterCase members.                *)
(***************************************************************************)
IsSep(c) == c \in {"-", "_", "."}
IsSepOrSpace(c) == c \in {"-", "_", ".", " "}

RECURSIVE CamelRest(_)
\* re.sub(r"[\-_\.\s]([a-z])", lambda m: uppercase(m.group(1)), rest)
CamelRest(t) ==
    IF t = << >> THEN << >>
    ELSE IF Len(t) >= 2 /\ IsSepOrSpace(t[1]) /\ IsLower(t[2])
         THEN <<UpperChar(t[2])>> \o CamelRest(SubSeq(t, 3, Len(t)))
         ELSE <<t[1]>> \o CamelRest(Tail(t))

camelcase(string) ==
    LET s1 == IF string # << >> /\ IsSep(string[1]) THEN Tail(string) ELSE string
    IN  IF s1 = << >> THEN s1
        ELSE <<LowerChar(s1[1])>> \o CamelRest(Tail(s1))

RECURSIVE SnakeRest(_)
\* re.sub(r"[A-Z]", lambda m: '_' + lowercase(m.group(0)), rest)
SnakeRest(t) ==
    IF t = << >> THEN << >>
    ELSE IF IsUpper(t[1])
         THEN <<"_", LowerChar(t[1])>> \o SnakeRest(Tail(t))
         ELSE <<t[1]>> \o SnakeRest(Tail(t))

snakecase(string) ==
    LET s1 == [i \in 1..Len(string) |->
                 IF string[i] \in {"-", ".", " "} THEN "_" ELSE string[i]]
    IN  IF s1 = << >> THEN s1
        ELSE <<LowerChar(s1[1])>> \o SnakeRest(Tail(s1))

capitalcase(string) ==
    IF string = << >> THEN string ELSE <<UpperChar(string[1])>> \o Tail(string)

pascalcase(string) == capitalcase(camelcase(string))

spinalcase(string) ==
    LET s1 == snakecase(string)
    IN  [i \in 1..Len(s1) |-> IF s1[i] = "_" THEN "-" ELSE s1[i]]

(***************************************************************************)
(* Python values.  Every value is a record tagged by t.                    *)
(***************************************************************************)
None   == [t |-> "None"]
Absent == [t |-> "absent"]          \* a key the dict does not hold

Callable(id) == [t |-> "callable", id |-> id]
Str(s)       == [t |-> "str", s |-> s]

\* class LetterCase(Enum): the four transforms
LetterCase == {Callable("camelcase"), Callable("spinalcase"),
               Callable("snakecase"), Callable("pascalcase")}

\* class Undefined(Enum): the member names
UndefinedNames == { <<"I","N","C","L","U","D","E">>,
                    <<"R","A","I","S","E">>,
                    <<"E","X","C","L","U","D","E">> }
UndefinedMember(name) == [t |-> "Undefined", name |-> name]
Undefined == {UndefinedMember(n) : n \in UndefinedNames}

\* hasattr(Undefined, name) and Undefined[name]
hasattr_Undefined(name) == name \in UndefinedNames
Undefined_getitem(name) == UndefinedMember(name)


\* calling a key-name function stored under 'letter_case' on a declared name
CallLetterCase(id, name) ==
    CASE id = "camelcase"  -> camelcase(name)
      [] id = "spinalcase" -> spinalcase(name)
      [] id = "snakecase"  -> snakecase(name)
      [] id = "pascalcase" -> pascalcase(name)

(***************************************************************************)
(* config(): the metadata mapping and the five keys of its                 *)
(* 'dataclasses_json' entry.                                               *)
(***************************************************************************)
EmptyData == [encoder |-> Absent, decoder |-> Absent, mm_field |-> Absent,
              letter_case |-> Absent, undefined |-> Absent]

\* a dict object: its identity, its 'dataclasses_json' entry (when has_dj) and
\* one other key of the caller's
Dict(id, other) == [t |-> "dict", id |-> id, has_dj |-> FALSE, dj |-> EmptyData, other |-> other]

\* if <value> is not None: data[<key>] = <value>
set_option_first_writer(data, key, value) ==
    IF value.t # "None" /\ data[key].t = "absent"
    THEN [data EXCEPT ![key] = value] ELSE data


set_option(data, key, value) ==
    IF value.t # "None" THEN [data EXCEPT ![key] = value] ELSE data

\* the closure `override` built when field_name is given; it keeps field_name
\* and letter_case as default arguments
Override(field_name, letter_case) ==
    [t |-> "override", field_name |-> field_name, letter_case |-> letter_case]

override_ignores_letter_case(letter_case, field_name) ==
    IF field_name.t # "None" THEN Override(field_name.s, None) ELSE letter_case

override(letter_case, field_name) ==
    IF field_name.t # "None" THEN Override(field_name.s, letter_case)
    ELSE letter_case

\* what a stored key-name function returns for a declared field name

key_name(fn, declared) ==
    CASE fn.t = "callable" -> CallLetterCase(fn.id, declared)
      [] fn.t = "override" ->
            IF fn.letter_case.t = "None" THEN fn.field_name
            ELSE CallLetterCase(fn.letter_case.id, fn.field_name)

\* the isinstance(undefined, str) branch: the member for a policy name, or the
\* UndefinedParameterError
undefined_action_case_sensitive(undefined) ==
    IF undefined.t = "str"
    THEN IF ~hasattr_Undefined(undefined.s)
         THEN [raised |-> TRUE, value |-> None]
         ELSE [raised |-> FALSE, value |-> Undefined_getitem(undefined.s)]
    ELSE [raised |-> FALSE, value |-> undefined]

undefined_action_no_check(undefined) ==
    IF undefined.t = "str"
    THEN [raised |-> FALSE,
          value  |-> IF hasattr_Undefined(upper(undefined.s))
                     THEN Undefined_getitem(upper(undefined.s)) ELSE undefined]
    ELSE [raised |-> FALSE, value |-> undefined]

undefined_action(undefined) ==
    IF undefined.t = "str"
    THEN IF ~hasattr_Undefined(upper(undefined.s))
         THEN [raised |-> TRUE, value |-> None]
         ELSE [raised |-> FALSE, value |-> Undefined_getitem(upper(undefined.s))]
    ELSE [raised |-> FALSE, value |-> undefined]

\* a variant that validates `undefined` before it touches the mapping
config_validates_first(fresh, md, encoder, decoder, mm_field, letter_case, undefined, field_name) ==
    LET md0   == IF md.t = "None" THEN fresh ELSE md
        act   == undefined_action(undefined)
        data0 == IF md0.has_dj THEN md0.dj ELSE EmptyData
        data1 == set_option(data0, "encoder", encoder)
        data2 == set_option(data1, "decoder", decoder)
        data3 == set_option(data2, "mm_field", mm_field)
        data4 == set_option(data3, "letter_case", override(letter_case, field_name))
        data5 == set_option(data4, "undefined", act.value)
    IN  IF act.raised
        THEN [raised |-> TRUE, dict |-> md0, ret |-> 0]
        ELSE [raised |-> FALSE, ret |-> md0.id,
              dict |-> [md0 EXCEPT !.has_dj = TRUE, !.dj = data5]]

\* a variant that always builds and returns a new mapping
config_copies(fresh, md, encoder, decoder, mm_field, letter_case, undefined, field_name) ==
    LET md0   == IF md.t = "None" THEN fresh ELSE md
        act   == undefined_action(undefined)
        data0 == EmptyData
        data1 == set_option(data0, "encoder", encoder)
        data2 == set_option(data1, "decoder", decoder)
        data3 == set_option(data2, "mm_field", mm_field)
        data4 == set_option(data3, "letter_case", override(letter_case, field_name))
        data5 == IF act.raised THEN data4
                 ELSE set_option(data4, "undefined", act.value)
    IN  [raised |-> act.raised,
         dict   |-> [fresh EXCEPT !.has_dj = TRUE, !.dj = data5],
         ret    |-> IF act.raised THEN 0 ELSE fresh.id]

\* config(metadata, *, encoder, decoder, mm_field, letter_case, undefined,
\* field_name).  `fresh` is the dict the `{}` display allocates when metadata is
\* None.  The result gives the mapping as the call leaves it (it is mutated in
\* place, also when the call raises), whether UndefinedParameterError was
\* raised, and the identity of the mapping returned (0: nothing returned).
config(fresh, md, encoder, decoder, mm_field, letter_case, undefined, field_name) ==
    LET md0   == IF md.t = "None" THEN fresh ELSE md
        data0 == IF md0.has_dj THEN md0.dj ELSE EmptyData
        data1 == set_option(data0, "encoder", encoder)
        data2 == set_option(data1, "decoder", decoder)
        data3 == set_option(data2, "mm_field", mm_field)
        data4 == set_option(data3, "letter_case", override(letter_case, field_name))
        act   == IF undefined.t # "None" THEN undefined_action(undefined)
                 ELSE [raised |-> FALSE, value |-> None]
        data5 == IF act.raised THEN data4
                 ELSE set_option(data4, "undefined", act.value)
    IN  [raised |-> act.raised,
         dict   |-> [md0 EXCEPT !.has_dj = TRUE, !.dj = data5],
         ret    |-> IF act.raised THEN 0 ELSE md0.id]

(***************************************************************************)
(* Record types, the dataclass_json decorator and schema().                *)
(***************************************************************************)
ClassIds == {"A", "B"}

EntryPoints == {"to_json", "from_json", "to_dict", "from_dict", "schema"}

Mixin(name) == [t |-> "DataClassJsonMixin", name |-> name]
ConfigData(d) == [t |-> "data", d |-> d]

\* a dataclass that was never decorated: no entry point, no
\* dataclass_json_config attribute, the constructor @dataclass generated
PlainClass ==
    [attrs |-> [a \in EntryPoints |-> Absent],
     init |-> [t |-> "dataclass_init"],
     dataclass_json_config |-> Absent,
     registered |-> FALSE]

\* a dataclass that inherits DataClassJsonMixin: the entry points and
\* dataclass_json_config = None come from the base class
MixinSubclass ==
    [attrs |-> [a \in EntryPoints |-> Mixin(a)],
     init |-> [t |-> "dataclass_init"],
     dataclass_json_config |-> None,
     registered |-> TRUE]

\* utils._undefined_parameter_action_safe(cls): the undefined-key policy the
\* class is configured with, or None
_undefined_parameter_action_safe(cls) ==
    IF cls.dataclass_json_config.t = "data"
       /\ cls.dataclass_json_config.d.undefined.t = "Undefined"
    THEN cls.dataclass_json_config.d.undefined
    ELSE None

\* utils._handle_undefined_parameters_safe(cls, kvs=(), usage="init"): the
\* constructor wrapper for the class as configured
_handle_undefined_parameters_safe(cls, usage) ==
    [t |-> "init_wrapper", usage |-> usage,
     action |-> _undefined_parameter_action_safe(cls)]

\* a variant that installs the entry points before it builds the configuration
_process_class_installs_first(fresh, cls, letter_case, undefined) ==
    LET need == letter_case.t # "None" \/ undefined.t # "None"
        r    == config(fresh, None, None, None, None, letter_case, undefined, None)
        c1   == [cls EXCEPT !.attrs = [a \in EntryPoints |-> Mixin(a)]]
        c2   == [c1 EXCEPT !.init = _handle_undefined_parameters_safe(c1, "init"),
                           !.registered = TRUE]
    IN  IF need /\ r.raised THEN [raised |-> TRUE, cls |-> c2]
        ELSE [raised |-> FALSE,
              cls |-> IF need
                      THEN [c2 EXCEPT !.dataclass_json_config = ConfigData(r.dict.dj)]
                      ELSE c2]

\* a variant that assigns dataclass_json_config unconditionally
_process_class_always_configures(fresh, cls, letter_case, undefined) ==
    LET r  == config(fresh, None, None, None, None, letter_case, undefined, None)
        c0 == [cls EXCEPT !.dataclass_json_config = ConfigData(r.dict.dj)]
        c1 == [c0 EXCEPT !.attrs = [a \in EntryPoints |-> Mixin(a)]]
        c2 == [c1 EXCEPT !.init = _handle_undefined_parameters_safe(c1, "init"),
                         !.registered = TRUE]
    IN  IF r.raised THEN [raised |-> TRUE, cls |-> cls]
        ELSE [raised |-> FALSE, cls |-> c2]

\* _process_class(cls, letter_case, undefined): the class as the call leaves it
\* and whether config raised.  `fresh` is the dict config allocates.
_process_class(fresh, cls, letter_case, undefined) ==
    LET need == letter_case.t # "None" \/ undefined.t # "None"
        r    == config(fresh, None, None, None, None, letter_case, undefined, None)
        c0   == IF need
                THEN [cls EXCEPT !.dataclass_json_config = ConfigData(r.dict.dj)]
                ELSE cls
        c1   == [c0 EXCEPT !.attrs = [a \in EntryPoints |-> Mixin(a)]]
        c2   == [c1 EXCEPT !.init = _handle_undefined_parameters_safe(c1, "init"),
                           !.registered = TRUE]
    IN  IF need /\ r.raised THEN [raised |-> TRUE, cls |-> cls]
        ELSE [raised |-> FALSE, cls |-> c2]

\* the closure wrap(cls) of dataclass_json
wrap(fresh, cls, letter_case, undefined) ==
    _process_class(fresh, cls, letter_case, undefined)

\* dataclass_json(_cls, letter_case=, undefined=): with _cls None it returns
\* wrap, which the decorator syntax then applies to the class
dataclass_json(fresh, _cls, letter_case, undefined) ==
    IF _cls.t = "None"
    THEN [t |-> "wrap", letter_case |-> letter_case, undefined |-> undefined]
    ELSE wrap(fresh, _cls.cls, letter_case, undefined)

\* a variant that lets the class's policy replace the caller's unknown
schema_policy_wins(cls, infer_missing, kw, unknown) ==
    LET action == _undefined_parameter_action_safe(cls)
        u == IF action.t # "None" THEN Str(lower(action.name)) ELSE unknown
    IN  [t |-> "Schema", infer_missing |-> infer_missing, build_partial |-> kw.partial,
         only |-> kw.only, exclude |-> kw.exclude, many |-> kw.many,
         context |-> kw.context, load_only |-> kw.load_only,
         dump_only |-> kw.dump_only, partial |-> kw.partial, unknown |-> u]


\* DataClassJsonMixin.schema(cls, *, infer_missing, only, exclude, many, context,
\* load_only, dump_only, partial, unknown): the arguments build_schema and the
\* Schema constructor are called with.  kw holds the seven pass-through ones.
schema(cls, infer_missing, kw, unknown) ==
    LET action == _undefined_parameter_action_safe(cls)
        u == IF unknown.t = "None" /\ action.t # "None"
             THEN Str(lower(action.name)) ELSE unknown
    IN  [t |-> "Schema", infer_missing |-> infer_missing, build_partial |-> kw.partial,
         only |-> kw.only, exclude |-> kw.exclude, many |-> kw.many,
         context |-> kw.context, load_only |-> kw.load_only,
         dump_only |-> kw.dump_only, partial |-> kw.partial, unknown |-> u]

(***************************************************************************)
(* The arguments the calls are made with.                                  *)
(***************************************************************************)
Encoders  == {Callable("enc1"), Callable("enc2")}
Decoders  == {Callable("dec1")}
MmFields  == {[t |-> "mm_field", id |-> "Int"]}
LetterCaseArgs == {Callable("camelcase"), Callable("snakecase")}

user_id == <<"u","s","e","r","_","i","d">>
userId  == <<"u","s","e","r","I","d">>

\* policy names: recognised in any letter case, and unrecognised ones
ValidPolicyNames   == { <<"r","a","i","s","e">>,
                        <<"I","n","c","l","u","d","e">>,
                        <<"E","X","C","L","U","D","E">>,
                        <<"e","X","c","L","u","D","e">> }
InvalidPolicyNames == { <<"i","g","n","o","r","e">>,
                        <<"r","a","i","s","e","s">>,
                        <<"R","A","I","S">>,
                        << >> }
UndefinedArgs == Undefined \cup {Str(n) : n \in ValidPolicyNames \cup InvalidPolicyNames}

RAISE  == UndefinedMember(<<"R","A","I","S","E">>)
ignore == Str(<<"i","g","n","o","r","e">>)

UserKey == [t |-> "int", v |-> 1]      \* the value under the caller's own key

NoCall == [op |-> "none", given |-> FALSE, encoder |-> None, decoder |-> None,
           mm_field |-> None, letter_case |-> None, undefined |-> None,
           field_name |-> None, raised |-> FALSE, ret |-> 0]

NoHistory == [encoder |-> None, decoder |-> None, mm_field |-> None,
              letter_case |-> None, undefined |-> None, field_name |-> None,
              kn_letter_case |-> None, kn_field_name |-> None, ok |-> TRUE]

\* history of the options supplied to the mapping: a value that is not None
\* replaces the one recorded
Supplied(old, new) == IF new.t # "None" THEN new ELSE old

Record(h, encoder, decoder, mm_field, letter_case, undefined, field_name) ==
    LET kn == letter_case.t # "None" \/ field_name.t # "None"
    IN  [encoder     |-> Supplied(h.encoder, encoder),
         decoder     |-> Supplied(h.decoder, decoder),
         mm_field    |-> Supplied(h.mm_field, mm_field),
         letter_case |-> Supplied(h.letter_case, letter_case),
         undefined   |-> Supplied(h.undefined, undefined),
         field_name  |-> Supplied(h.field_name, field_name),
         kn_letter_case |-> IF kn THEN letter_case ELSE h.kn_letter_case,
         kn_field_name  |-> IF kn THEN field_name ELSE h.kn_field_name,
         ok          |-> h.ok]

ClassVarsUnchanged == UNCHANGED <<classes, lastD>>
RtUnchanged == UNCHANGED rt

\* One config() call, on the caller's mapping (given) or on None, with its
\* arguments drawn from the sets named.  `last` observes the call; with `track`
\* the history of the options supplied to the mapping is kept in `latest`.
ConfigCall(Encs, Decs, Mms, Lcs, Undefs, Fns, track) ==
    \E given \in BOOLEAN,
       encoder \in Encs, decoder \in Decs, mm_field \in Mms,
       letter_case \in Lcs, undefined \in Undefs, fname \in Fns :
      LET r == config(Dict(nextId, Absent), IF given THEN metadata ELSE None,
                      encoder, decoder, mm_field, letter_case, undefined, fname)
      IN  /\ ~given => nextId <= MaxFresh + 1
          /\ nextId' = IF given THEN nextId ELSE nextId + 1
          \* the caller keeps composing over the mapping returned; a fresh
          \* mapping of a call that raised is never seen by the caller
          /\ metadata' = IF given \/ ~r.raised THEN r.dict ELSE metadata
          /\ last' = [op |-> "config", given |-> given, encoder |-> encoder,
                      decoder |-> decoder, mm_field |-> mm_field,
                      letter_case |-> letter_case, undefined |-> undefined,
                      field_name |-> fname, raised |-> r.raised, ret |-> r.ret]
          /\ latest' =
               IF ~track THEN latest
               ELSE IF r.raised
               THEN IF given THEN [latest EXCEPT !.ok = FALSE] ELSE latest
               ELSE Record(IF given THEN latest ELSE NoHistory,
                           encoder, decoder, mm_field, letter_case, undefined, fname)
          /\ ClassVarsUnchanged /\ RtUnchanged

\* calls that vary the undefined-key policy
Config ==
    ConfigCall({None}, Decoders \cup {None}, MmFields \cup {None}, {None},
               UndefinedArgs \cup {None}, {None}, FALSE)

\* calls that vary every option
ConfigCompose ==
    ConfigCall({Callable("enc1"), None}, Decoders \cup {None}, {None},
               LetterCaseArgs \cup {None}, {RAISE, ignore, None},
               {Str(user_id), None}, FALSE)

\* calls composed over one mapping, with their history
ConfigHistory ==
    ConfigCall(Encoders \cup {None}, {None}, {None},
               {Callable("camelcase"), None}, {RAISE, ignore, None},
               {Str(user_id), None}, TRUE)

InitConfig ==
    /\ metadata \in {Dict(1, Absent), Dict(1, UserKey)}
    /\ nextId = 2
    /\ last = NoCall
    /\ latest = NoHistory

\* the pass-through arguments of schema(): the defaults, and other values
Tuple(x) == [t |-> "tuple", v |-> x]
Bool(b)  == [t |-> "bool", v |-> b]
DefaultKwargs ==
    [only |-> None, exclude |-> Tuple(<< >>), many |-> Bool(FALSE), context |-> None,
     load_only |-> Tuple(<< >>), dump_only |-> Tuple(<< >>), partial |-> Bool(FALSE)]
SchemaKwargs ==
    { DefaultKwargs,
      [DefaultKwargs EXCEPT !.only = Tuple(<<"a">>), !.many = Bool(TRUE)],
      [DefaultKwargs EXCEPT !.exclude = Tuple(<<"b">>), !.context = Str(<<"c">>),
                            !.partial = Bool(TRUE)],
      [DefaultKwargs EXCEPT !.load_only = Tuple(<<"a">>),
                            !.dump_only = Tuple(<<"b">>)] }
UnknownArgs == { None, Str(<<"E","X","C","L","U","D","E">>), Str(<< >>) }

DecoratorLetterCases == {Callable("camelcase"), None}
DecoratorUndefineds ==
    { None, RAISE, Str(<<"e","x","c","l","u","d","e">>), ignore }

NoCallD == [op |-> "none", cls |-> "A", parens |-> FALSE, letter_case |-> None,
            undefined |-> None, raised |-> FALSE, infer_missing |-> FALSE,
            kw |-> DefaultKwargs, unknown |-> None, result |-> None]

ConfigVarsUnchanged == UNCHANGED <<metadata, nextId, last, latest>>

\* One decoration of a class: @dataclass_json, or @dataclass_json(...) whose
\* result wrap is applied to the class at once.
Decorate ==
    \E c \in ClassIds, parens \in BOOLEAN,
       letter_case \in DecoratorLetterCases, undefined \in DecoratorUndefineds :
      LET fresh == Dict(nextId, Absent)
          this  == [t |-> "class", cls |-> classes[c]]
          w     == dataclass_json(fresh, None, letter_case, undefined)
          r     == IF parens
                   THEN wrap(fresh, classes[c], w.letter_case, w.undefined)
                   ELSE dataclass_json(fresh, this, letter_case, undefined)
      IN  /\ classes' = [classes EXCEPT ![c] = r.cls]
          /\ lastD' = [NoCallD EXCEPT !.op = "dataclass_json", !.cls = c,
                          !.parens = parens, !.letter_case = letter_case,
                          !.undefined = undefined, !.raised = r.raised]
          /\ ConfigVarsUnchanged /\ RtUnchanged

\* One call of the schema() classmethod of a class that has it.
Schema ==
    \E c \in ClassIds, infer_missing \in BOOLEAN, kw \in SchemaKwargs,
       unknown \in UnknownArgs :
      /\ classes[c].attrs["schema"].t # "absent"
      /\ lastD' = [NoCallD EXCEPT !.op = "schema", !.cls = c,
                      !.infer_missing = infer_missing, !.kw = kw,
                      !.unknown = unknown,
                      !.result = schema(classes[c], infer_missing, kw, unknown)]
      /\ UNCHANGED classes
      /\ ConfigVarsUnchanged /\ RtUnchanged

(***************************************************************************)
(* to_dict / from_dict.  The converters they delegate to, core._asdict and *)
(* core._decode_dataclass, walk the declared fields and consult the        *)
(* configuration: a field's own key-name function, else the class's.       *)
(***************************************************************************)
\* a record type: its declared fields, each with the 'letter_case' entry of its
\* metadata, and the 'letter_case' entry of the class configuration
FieldOf(name, letter_case) == [name |-> name, letter_case |-> letter_case]

\* the key a field is written under and read from
FieldKey(type, i) ==
    LET f  == type.fields[i]
        fn == IF f.letter_case.t # "absent" THEN f.letter_case ELSE type.letter_case
    IN  IF fn.t = "absent" THEN f.name ELSE key_name(fn, f.name)

\* d[key] = value on a dict held as a set of <<key, value>> pairs
SetItem(d, key, value) == {p \in d : p[1] # key} \cup {<<key, value>>}

RECURSIVE AsDictFrom(_, _, _, _)
AsDictFrom(type, values, i, acc) ==
    IF i > Len(type.fields) THEN acc
    ELSE AsDictFrom(type, values, i + 1, SetItem(acc, FieldKey(type, i), values[i]))

\* core._asdict(obj, encode_json): the mapping of the record's fields, in
\* declaration order, each under its key
_asdict(obj, encode_json) == AsDictFrom(obj.type, obj.values, 1, {})

\* core._decode_dataclass(cls, kvs, infer_missing): the record of type cls read
\* from the mapping; a field whose key is missing fails the call
_decode_dataclass(cls, kvs, infer_missing) ==
    LET has(i) == \E p \in kvs : p[1] = FieldKey(cls, i)
        get(i) == (CHOOSE p \in kvs : p[1] = FieldKey(cls, i))[2]
    IN  IF \A i \in DOMAIN cls.fields : has(i)
        THEN [ok |-> TRUE, type |-> cls,
              values |-> [i \in DOMAIN cls.fields |-> get(i)]]
        ELSE [ok |-> FALSE, type |-> cls, values |-> << >>]

\* DataClassJsonMixin itself, which declares no field
MixinType == [fields |-> << >>, letter_case |-> Absent]

\* a variant bound to the DataClassJsonMixin ABC instead of cls
from_dict_of_mixin(cls, kvs, infer_missing) ==
    _decode_dataclass(MixinType, kvs, infer_missing)

\* DataClassJsonMixin.from_dict(cls, kvs, *, infer_missing=False)
from_dict(cls, kvs, infer_missing) == _decode_dataclass(cls, kvs, infer_missing)

\* DataClassJsonMixin.to_dict(self, encode_json=False)
to_dict(self, encode_json) == _asdict(self, encode_json)

\* the 'letter_case' entry of the metadata config() returns for a field
FieldLetterCase(letter_case, field_name) ==
    config(Dict(0, Absent), None, None, None, None, letter_case, None,
           field_name).dict.dj.letter_case

FieldValues == {1, 2}
Idle == [pc |-> "idle", type |-> MixinType, values |-> << >>, kvs |-> {},
         out |-> [ok |-> FALSE, type |-> MixinType, values |-> << >>]]

\* to_dict on a record of a type with two declared fields, id and user_id
ToDict ==
    \E lc1 \in {Callable("camelcase"), None}, fn1 \in {Str(user_id), Str(userId), None},
       lc2 \in {Callable("camelcase"), None}, fn2 \in {Str(userId), None},
       clc \in {Callable("camelcase"), Absent},
       v1 \in FieldValues, v2 \in FieldValues :
      LET type == [fields |-> << FieldOf(<<"i","d">>, FieldLetterCase(lc1, fn1)),
                                 FieldOf(user_id, FieldLetterCase(lc2, fn2)) >>,
                   letter_case |-> clc]
          self == [type |-> type, values |-> <<v1, v2>>]
      IN  rt' = [Idle EXCEPT !.pc = "encoded", !.type = type, !.values = <<v1, v2>>,
                             !.kvs = to_dict(self, FALSE)]

\* from_dict of the record's type on the mapping to_dict returned
FromDict ==
    /\ rt.pc = "encoded"
    /\ rt' = [rt EXCEPT !.pc = "decoded", !.out = from_dict(rt.type, rt.kvs, FALSE)]

InitClasses ==
    /\ classes = [c \in ClassIds |-> IF c = "A" THEN PlainClass ELSE MixinSubclass]
    /\ lastD = NoCallD
InitRt == rt = Idle

Init == InitConfig /\ InitClasses /\ InitRt

Next == Config
Spec == Init /\ [][Next]_vars

NextCompose == ConfigCompose
SpecCompose == Init /\ [][NextCompose]_vars

NextHistory == ConfigHistory
SpecHistory == Init /\ [][NextHistory]_vars

NextDecorator == Decorate \/ Schema
SpecDecorator == Init /\ [][NextDecorator]_vars

NextRoundTrip ==
    \/ ToDict /\ ConfigVarsUnchanged /\ ClassVarsUnchanged
    \/ FromDict /\ ConfigVarsUnchanged /\ ClassVarsUnchanged
SpecRoundTrip == Init /\ [][NextRoundTrip]_vars

(***************************************************************************)
(* Claims about config().                                                  *)
(***************************************************************************)
\* the 'dataclasses_json' entry of a mapping; a mapping without one has no option
DataOf(md) == IF md.has_dj THEN md.dj ELSE EmptyData

\* the mapping a call starts from: the caller's, or the empty fresh one
Before(call) == IF call.given THEN DataOf(metadata) ELSE EmptyData

IsPolicyName(s) == upper(s) \in UndefinedNames

\* the key-name function a call with these two arguments is expected to store
ExpectedKeyName(letter_case, field_name) ==
    IF field_name.t # "None"
    THEN [t |-> "override", field_name |-> field_name.s, letter_case |-> letter_case]
    ELSE letter_case

\* C1: a policy name recognised after upper-casing, in any letter case, makes
\* config succeed and store the Undefined member of that name under
\* 'undefined'; an Undefined member passed directly is stored as given.
C1_PolicyNameStored ==
    last.op = "config" =>
      /\ (last.undefined.t = "str" /\ IsPolicyName(last.undefined.s)) =>
            /\ ~last.raised
            /\ last.ret = metadata.id
            /\ metadata.has_dj
            /\ metadata.dj.undefined = UndefinedMember(upper(last.undefined.s))
      /\ last.undefined.t = "Undefined" =>
            /\ ~last.raised
            /\ metadata.has_dj
            /\ metadata.dj.undefined = last.undefined

C1_Witness ==
    /\ last.op = "config"
    /\ last.undefined = Str(<<"e","X","c","L","u","D","e">>)
    /\ ~last.raised
    /\ metadata.dj.undefined = UndefinedMember(<<"E","X","C","L","U","D","E">>)

\* C2: a string that is no policy name after upper-casing makes config raise
\* UndefinedParameterError: nothing is returned, and the value under
\* 'undefined' (or its absence) is what it was before the call.
C2_BadPolicyNameRaises ==
    [][ (last'.op = "config" /\ last'.undefined.t = "str"
            /\ ~IsPolicyName(last'.undefined.s)) =>
          /\ last'.raised
          /\ last'.ret = 0
          /\ last'.given => DataOf(metadata').undefined = DataOf(metadata).undefined
          /\ ~last'.given => metadata' = metadata ]_vars

C2_Witness ==
    /\ last.op = "config"
    /\ last.undefined = Str(<<"r","a","i","s","e","s">>)
    /\ last.given
    /\ last.raised
    /\ metadata.has_dj
    /\ metadata.dj.undefined = UndefinedMember(<<"I","N","C","L","U","D","E">>)

\* declared field names a stored key-name function is applied to
DeclaredNames == { <<"i","d">>, user_id, userId }

BothGiven(call) ==
    /\ call.op = "config" /\ ~call.raised
    /\ call.letter_case.t # "None" /\ call.field_name.t # "None"

\* C3 as stated: with both letter_case and field_name given, the stored key-name
\* function yields field_name itself for every declared name, as it does when
\* field_name is given alone.
C3_Original ==
    BothGiven(last) =>
      \A d \in DeclaredNames :
         /\ key_name(metadata.dj.letter_case, d) = last.field_name.s
         /\ key_name(metadata.dj.letter_case, d) =
               key_name(override(None, last.field_name), d)

\* C3 as amended: with both given, the stored key-name function ignores the
\* declared name it is applied to and yields letter_case(field_name), the
\* transform applied to the explicit name; this is field_name itself exactly
\* when the transform maps field_name to itself.
C3_OverrideIsTransformed ==
    BothGiven(last) =>
      \A d \in DeclaredNames :
         LET out == key_name(metadata.dj.letter_case, d)
         IN  /\ out = CallLetterCase(last.letter_case.id, last.field_name.s)
             /\ (out = last.field_name.s) <=>
                  (CallLetterCase(last.letter_case.id, last.field_name.s)
                      = last.field_name.s)

C3_Witness ==
    /\ BothGiven(last)
    /\ last.letter_case = Callable("camelcase")
    /\ last.field_name = Str(user_id)
    /\ key_name(metadata.dj.letter_case, <<"i","d">>) = userId

\* the options of the mapping other than the key-name function
PlainOptions == {"encoder", "decoder", "mm_field", "undefined"}

\* what every successful call does, whichever options it changes: the mapping
\* given is the mapping returned (a new one when none is given), the
\* configuration is under 'dataclasses_json', the caller's other key is kept
ReturnsItsMapping ==
    /\ metadata'.has_dj
    /\ last'.ret = metadata'.id
    /\ last'.given  => metadata'.id = metadata.id /\ metadata'.other = metadata.other
    /\ ~last'.given => metadata'.id = nextId /\ metadata'.id # metadata.id
                         /\ metadata'.other = Absent

\* the two key-name options as the one 'letter_case' entry holds them: the
\* transform in effect and the explicit name in effect (None: there is none)
TransformOf(v) ==
    CASE v.t = "callable" -> v
      [] v.t = "override" -> v.letter_case
      [] OTHER -> None
ExplicitNameOf(v) == IF v.t = "override" THEN Str(v.field_name) ELSE None

\* C9 as stated: a successful call returns the mapping it was given (a fresh
\* one for None) and changes only the options supplied: every option not
\* supplied (the key-name transform and the explicit field name among them),
\* and every other key, keeps its value.
C9_Original ==
    [][ (last'.op = "config" /\ ~last'.raised) =>
          /\ ReturnsItsMapping
          /\ \A o \in PlainOptions :
                last'[o].t = "None" => metadata'.dj[o] = Before(last')[o]
          /\ last'.letter_case.t = "None" =>
                TransformOf(metadata'.dj.letter_case)
                    = TransformOf(Before(last').letter_case)
          /\ last'.field_name.t = "None" =>
                ExplicitNameOf(metadata'.dj.letter_case)
                    = ExplicitNameOf(Before(last').letter_case) ]_vars

\* C9 as amended: as stated for encoder, decoder, mm_field, the undefined policy
\* and the other keys; the key-name transform and the explicit field name share
\* the one 'letter_case' entry, which is kept only when neither is supplied: a
\* call that supplies field_name replaces it by the function built from
\* field_name and this call's letter_case (dropping a stored transform), and a
\* call that supplies letter_case alone replaces it by letter_case (dropping a
\* stored explicit name).
C9_FrameOfConfig ==
    [][ (last'.op = "config" /\ ~last'.raised) =>
          /\ ReturnsItsMapping
          /\ \A o \in PlainOptions :
                last'[o].t = "None" => metadata'.dj[o] = Before(last')[o]
          /\ (last'.letter_case.t = "None" /\ last'.field_name.t = "None") =>
                metadata'.dj.letter_case = Before(last').letter_case
          /\ (last'.letter_case.t # "None" \/ last'.field_name.t # "None") =>
                metadata'.dj.letter_case =
                    ExpectedKeyName(last'.letter_case, last'.field_name) ]_vars

C9_Witness ==
    /\ last.op = "config" /\ ~last.raised /\ last.given
    /\ last.encoder = None /\ last.decoder = None /\ last.letter_case = None
    /\ last.field_name = Str(user_id)
    /\ metadata.dj.encoder = Callable("enc1")
    /\ metadata.dj.letter_case = Override(user_id, None)
    /\ metadata.other = UserKey

\* C10 as stated: a call that raises UndefinedParameterError leaves the
\* caller's mapping exactly as it was.
C10_Original ==
    [][ (last'.op = "config" /\ last'.raised /\ last'.given) =>
          metadata' = metadata ]_vars

\* C10 as amended: a call that raises leaves the value under 'undefined' and
\* every other key of the caller's mapping as they were, but by then the
\* mapping has a 'dataclasses_json' entry, and every encoder, decoder, mm_field
\* and key-name option supplied in the failing call is stored in it (the
\* options not supplied keep their values).
C10_FailedCallHasStored ==
    [][ (last'.op = "config" /\ last'.raised /\ last'.given) =>
          /\ metadata'.has_dj
          /\ metadata'.id = metadata.id /\ metadata'.other = metadata.other
          /\ metadata'.dj.undefined = DataOf(metadata).undefined
          /\ \A o \in {"encoder", "decoder", "mm_field"} :
                metadata'.dj[o] =
                    IF last'[o].t # "None" THEN last'[o] ELSE DataOf(metadata)[o]
          /\ metadata'.dj.letter_case =
                IF last'.letter_case.t # "None" \/ last'.field_name.t # "None"
                THEN ExpectedKeyName(last'.letter_case, last'.field_name)
                ELSE DataOf(metadata).letter_case ]_vars

C10_Witness ==
    /\ last.op = "config" /\ last.raised /\ last.given
    /\ last.encoder = Callable("enc1") /\ last.field_name = Str(user_id)
    /\ last.undefined = ignore
    /\ metadata.dj.encoder = Callable("enc1")
    /\ metadata.dj.letter_case.t = "override"
    /\ metadata.dj.undefined = Absent

\* the member a supplied undefined argument stands for
Resolved(u) == IF u.t = "str" THEN UndefinedMember(upper(u.s)) ELSE u

\* an option holds the value most recently supplied for it, if any
HoldsLatest(o, value) ==
    DataOf(metadata)[o] = IF value.t = "None" THEN Absent ELSE value

LatestPlainOptions ==
    /\ HoldsLatest("encoder", latest.encoder)
    /\ HoldsLatest("decoder", latest.decoder)
    /\ HoldsLatest("mm_field", latest.mm_field)
    /\ HoldsLatest("undefined", Resolved(latest.undefined))

\* C6 as stated: after successful calls composed over one mapping each option
\* holds the value of the most recent call that supplied it; the explicit field
\* name and the key-name transform are two such options, so a field_name of an
\* earlier call stays in effect when a later call supplies letter_case only.
C6_Original ==
    latest.ok =>
      /\ LatestPlainOptions
      /\ ExplicitNameOf(DataOf(metadata).letter_case) = latest.field_name
      /\ TransformOf(DataOf(metadata).letter_case) = latest.letter_case

\* C6 as amended: encoder, decoder, mm_field and the undefined policy each hold
\* the value of the most recent call that supplied them; letter_case and
\* field_name share the one 'letter_case' entry, which holds the key-name
\* function built by the most recent call that supplied either of them, so a
\* later call with letter_case only replaces an earlier explicit field_name.
C6_LastWriterWins ==
    latest.ok =>
      /\ LatestPlainOptions
      /\ HoldsLatest("letter_case",
                     ExpectedKeyName(latest.kn_letter_case, latest.kn_field_name))

C6_Witness ==
    /\ latest.ok /\ last.op = "config" /\ last.given
    /\ latest.field_name = Str(user_id) /\ latest.kn_field_name = None
    /\ metadata.dj.letter_case = Callable("camelcase")
    /\ latest.encoder = Callable("enc2") /\ last.encoder = None
    /\ metadata.dj.encoder = Callable("enc2")

(***************************************************************************)
(* Claims about the decorator and schema().                                *)
(***************************************************************************)
\* the lower-cased names of the three policies
PolicyKeyword(member) ==
    CASE member.name = <<"I","N","C","L","U","D","E">> -> <<"i","n","c","l","u","d","e">>
      [] member.name = <<"R","A","I","S","E">>         -> <<"r","a","i","s","e">>
      [] member.name = <<"E","X","C","L","U","D","E">> -> <<"e","x","c","l","u","d","e">>

\* the undefined-key policy a class is configured with, if any
HasPolicy(c) ==
    /\ classes[c].dataclass_json_config.t = "data"
    /\ classes[c].dataclass_json_config.d.undefined.t = "Undefined"

\* C5: schema() uses the caller's unknown unchanged when it is not None;
\* otherwise the lower-cased name of the class's configured undefined-key
\* policy; otherwise None.  The other arguments are passed through unchanged.
C5_SchemaUnknown ==
    lastD.op = "schema" =>
      LET out == lastD.result
          c   == lastD.cls
      IN  /\ out.unknown =
                IF lastD.unknown.t # "None" THEN lastD.unknown
                ELSE IF HasPolicy(c)
                     THEN Str(PolicyKeyword(classes[c].dataclass_json_config.d.undefined))
                     ELSE None
          /\ out.only = lastD.kw.only /\ out.exclude = lastD.kw.exclude
          /\ out.many = lastD.kw.many /\ out.context = lastD.kw.context
          /\ out.load_only = lastD.kw.load_only
          /\ out.dump_only = lastD.kw.dump_only
          /\ out.partial = lastD.kw.partial

C5_Witness ==
    /\ lastD.op = "schema" /\ lastD.unknown = None
    /\ HasPolicy(lastD.cls)
    /\ lastD.result.unknown = Str(<<"e","x","c","l","u","d","e">>)
    /\ lastD.kw.only = Tuple(<<"a">>) /\ lastD.result.only = Tuple(<<"a">>)

IsBadPolicy(u) == u.t = "str" /\ ~IsPolicyName(u.s)

\* C7: decorating with an unrecognised policy name raises the configuration
\* error at decoration time and leaves the class as it was: no entry point,
\* constructor wrapper or dataclass_json_config is installed and the class is
\* not registered.
C7_BadDecorationLeavesClass ==
    [][ (lastD'.op = "dataclass_json" /\ IsBadPolicy(lastD'.undefined)) =>
          /\ lastD'.raised
          /\ classes' = classes ]_vars

C7_Witness ==
    /\ lastD.op = "dataclass_json" /\ lastD.raised
    /\ lastD.undefined = ignore /\ lastD.letter_case = Callable("camelcase")
    /\ classes[lastD.cls] = PlainClass

\* the configuration config() builds from letter_case and undefined alone
InnerConfig(letter_case, undefined) ==
    ConfigData([EmptyData EXCEPT
                  !.letter_case = IF letter_case.t = "None" THEN Absent ELSE letter_case,
                  !.undefined   = IF undefined.t = "None" THEN Absent
                                  ELSE Resolved(undefined)])

\* C8: a successful decoration, with or without parentheses, installs the four
\* conversion entry points, schema and the constructor wrapper and registers
\* the class; dataclass_json_config is replaced by the configuration built from
\* letter_case and undefined when either is supplied, and kept otherwise.
C8_DecorationInstalls ==
    [][ (lastD'.op = "dataclass_json" /\ ~lastD'.raised) =>
          LET c == lastD'.cls
          IN  /\ \A a \in EntryPoints : classes'[c].attrs[a] = Mixin(a)
              /\ classes'[c].init.t = "init_wrapper"
              /\ classes'[c].registered
              /\ classes'[c].dataclass_json_config =
                    IF lastD'.letter_case.t = "None" /\ lastD'.undefined.t = "None"
                    THEN classes[c].dataclass_json_config
                    ELSE InnerConfig(lastD'.letter_case, lastD'.undefined)
              /\ \A o \in ClassIds \ {c} : classes'[o] = classes[o] ]_vars

C8_Witness ==
    /\ lastD.op = "dataclass_json" /\ ~lastD.raised /\ ~lastD.parens
    /\ lastD.letter_case = None /\ lastD.undefined = None
    /\ lastD.cls = "A"
    /\ classes["A"].dataclass_json_config = InnerConfig(Callable("camelcase"), RAISE)
    /\ classes["A"].registered

(***************************************************************************)
(* Claims about to_dict / from_dict.                                       *)
(***************************************************************************)
RoundTrips ==
    /\ rt.out.ok
    /\ rt.out.type = rt.type
    /\ rt.out.values = rt.values

DistinctKeys(type) ==
    \A i, j \in DOMAIN type.fields : i # j => FieldKey(type, i) # FieldKey(type, j)

====
